---- MODULE Spec2Model ----
(***************************************************************************)
(* The persistence schema of db/models.py as a state machine: the tables   *)
(* CinemaHall, MovieSession, User, Order and Ticket, the operations the    *)
(* ORM gives each of them (create, update, delete with ON DELETE CASCADE), *)
(* and Ticket.save, which runs full_clean() and then writes the row.       *)
(* Ticket.save is two steps per caller, validation and write, so that the  *)
(* steps of concurrent callers interleave.                                 *)
(***************************************************************************)
EXTENDS Integers, Sequences, FiniteSets, TLC

VARIABLES halls, sessions, users, orders, tickets, now, call, listing,
          capacityRead, resized

vars == <<halls, sessions, users, orders, tickets, now, call, listing,
          capacityRead, resized>>

(* ------------------------------ bounds --------------------------------- *)
MaxHalls == 2
MaxSessions == 2
MaxUsers == 1
MaxOrders == 3
MaxTickets == 2
MaxDim == 2
MaxTime == 2
NumProcs == 2

HallIds == 1..MaxHalls
SessionIds == 1..MaxSessions
UserIds == 1..MaxUsers
OrderIds == 1..MaxOrders
TicketIds == 1..MaxTickets
Procs == 1..NumProcs
\* values a caller gives for CinemaHall.rows / seats_in_row (any integer)
DimRange == (-1)..MaxDim
\* values a caller gives for Ticket.row / Ticket.seat: 0 and MaxDim + 1 included
SeatRange == 0..(MaxDim + 1)

(* ------------------------------ tables --------------------------------- *)
\* A primary key is "unborn" until the row is inserted, "live" while the row
\* exists and "deleted" afterwards: an AutoField never hands out a key twice.
HallRow(st, r, s) == [st |-> st, rows |-> r, seats_in_row |-> s]
SessionRow(st, h) == [st |-> st, cinema_hall |-> h]
OrderRow(st, at, u) == [st |-> st, created_at |-> at, user |-> u]
TicketRow(st, ms, o, r, s) ==
    [st |-> st, movie_session |-> ms, order |-> o, row |-> r, seat |-> s]

Live(table, id) == id \in DOMAIN table /\ table[id].st = "live"
LiveIds(table) == {id \in DOMAIN table : table[id].st = "live"}
Unborn(table) == {id \in DOMAIN table : table[id].st = "unborn"}
\* the key the next INSERT gets; 0 when the bound on the table is used up
NextId(table) ==
    IF Unborn(table) = {} THEN 0
    ELSE CHOOSE id \in Unborn(table) : \A other \in Unborn(table) : id <= other

(* --------------------------- CinemaHall -------------------------------- *)
\* a hall that validated its dimensions, as a PositiveIntegerField would
HallAcceptsPositive(r, s) == r > 0 /\ s > 0

\* CinemaHall.rows and seats_in_row are IntegerField: every integer is stored.
HallAccepts(r, s) == TRUE

\* the capacity as a sum
capacity_sum(h) == halls[h].rows + halls[h].seats_in_row

capacity(h) == halls[h].rows * halls[h].seats_in_row

(* ------------------------- ON DELETE CASCADE --------------------------- *)
SessionsOfHalls(hs) ==
    {s \in LiveIds(sessions) : sessions[s].cinema_hall \in hs}
OrdersOfUsers(us) == {o \in LiveIds(orders) : orders[o].user \in us}
\* a session whose tickets are left behind by its deletion
NoTicketsOfSessions(ss) == {}

TicketsOfSessions(ss) ==
    {t \in LiveIds(tickets) : tickets[t].movie_session \in ss}
TicketsOfOrders(os) == {t \in LiveIds(tickets) : tickets[t].order \in os}

DeleteSessions(ss) ==
    [s \in SessionIds |-> IF s \in ss THEN SessionRow("deleted", 0) ELSE sessions[s]]
DeleteOrders(os) ==
    [o \in OrderIds |-> IF o \in os THEN OrderRow("deleted", 0, 0) ELSE orders[o]]
DeleteTickets(ts) ==
    [t \in TicketIds |->
        IF t \in ts THEN TicketRow("deleted", 0, 0, 0, 0) ELSE tickets[t]]

(* ------------------------------ Order ---------------------------------- *)
\* ordering = ["created_at"]: oldest first
BeforeAscending(a, b) == orders[a].created_at <= orders[b].created_at

\* Meta.ordering = ["-created_at"]: a comes before b in the default listing
Before(a, b) == orders[a].created_at >= orders[b].created_at

\* Every sequence ORDER BY created_at DESC may return for the orders in os:
\* rows with equal created_at come in an order the database chooses.
RECURSIVE Listings(_)
Listings(os) ==
    IF os = {} THEN {<<>>}
    ELSE UNION {
        {<<[id |-> o, created_at |-> orders[o].created_at]>> \o rest :
            rest \in Listings(os \ {o})} :
        o \in {x \in os : \A y \in os : Before(x, y)}}

(* ------------------------------ Ticket --------------------------------- *)
NoErrors == {}
SeatOutOfRange(field) == {<<field, "seat_out_of_range">>}
\* the ValidationError of full_clean() for a violated UniqueConstraint
UniqueTogether == {<<"__all__", "unique_together">>}
\* the IntegrityError of the database for a violated UniqueConstraint
UniqueConstraintError == {<<"__all__", "unique_constraint">>}
\* the IntegrityError of the database for a missing parent row
ForeignKeyError == {<<"__all__", "foreign_key">>}

\* a clean that checks the lower bounds alone
clean_no_upper_bound(row, seat, rows, seats_in_row) ==
    IF ~(1 <= row) THEN SeatOutOfRange("row")
    ELSE IF ~(1 <= seat) THEN SeatOutOfRange("seat")
    ELSE NoErrors

\* a clean whose row check excludes the last row
clean_last_row_excluded(row, seat, rows, seats_in_row) ==
    IF ~(1 <= row /\ row < rows) THEN SeatOutOfRange("row")
    ELSE IF ~(1 <= seat /\ seat <= seats_in_row) THEN SeatOutOfRange("seat")
    ELSE NoErrors

\* a clean that collects the errors of both checks
clean_accumulating(row, seat, rows, seats_in_row) ==
    (IF ~(1 <= row /\ row <= rows) THEN SeatOutOfRange("row") ELSE NoErrors)
    \cup
    (IF ~(1 <= seat /\ seat <= seats_in_row) THEN SeatOutOfRange("seat")
     ELSE NoErrors)

\* Ticket.clean: the first check that fails raises
clean(row, seat, rows, seats_in_row) ==
    IF ~(1 <= row /\ row <= rows) THEN SeatOutOfRange("row")
    ELSE IF ~(1 <= seat /\ seat <= seats_in_row) THEN SeatOutOfRange("seat")
    ELSE NoErrors

\* the rows the UniqueConstraint on (row, seat, movie_session) forbids next to
\* ticket id with these values
Duplicates(id, ms, row, seat) ==
    {t \in LiveIds(tickets) :
        /\ t # id
        /\ tickets[t].movie_session = ms
        /\ tickets[t].row = row
        /\ tickets[t].seat = seat}

\* a full_clean() that validates no constraint
validate_unique_skipped(id, ms, row, seat) == NoErrors

\* full_clean()'s uniqueness validation of Meta.constraints, a query made
\* before the write
validate_unique(id, ms, row, seat) ==
    IF Duplicates(id, ms, row, seat) # {}
    THEN UniqueTogether
    ELSE NoErrors

\* full_clean(): clean(), then the uniqueness validation unless one of the
\* constraint's fields already failed
full_clean(id, ms, row, seat) ==
    LET hall == halls[sessions[ms].cinema_hall]
        e == clean(row, seat, hall.rows, hall.seats_in_row)
    IN  IF e # NoErrors THEN e ELSE validate_unique(id, ms, row, seat)

\* a save that writes whatever full_clean() found
WritesRegardless(errors) == TRUE

\* Ticket.save: an exception of full_clean() leaves save before the write
ProceedsToWrite(errors) == errors = NoErrors

\* a table without the UniqueConstraint
NoUniqueConstraint(id, ms, row, seat) == TRUE

\* the database's own checks of the row at INSERT / UPDATE
UniqueConstraintHolds(id, ms, row, seat) == Duplicates(id, ms, row, seat) = {}
ForeignKeysHold(ms, o) == Live(sessions, ms) /\ Live(orders, o)

IdleCall == [pc |-> "idle", id |-> 0, movie_session |-> 0, order |-> 0,
             row |-> 0, seat |-> 0, errors |-> NoErrors]
Call(pc, id, ms, o, row, seat, errors) ==
    [pc |-> pc, id |-> id, movie_session |-> ms, order |-> o,
     row |-> row, seat |-> seat, errors |-> errors]

\* saves of new tickets that passed validation and have not written yet
InsertsInFlight == {p \in Procs : call[p].pc = "validated" /\ call[p].id = 0}

(* ------------------------------ actions -------------------------------- *)
HallCreate(r, s) ==
    /\ NextId(halls) # 0
    /\ HallAccepts(r, s)
    /\ halls' = [halls EXCEPT ![NextId(halls)] = HallRow("live", r, s)]
    /\ UNCHANGED <<sessions, users, orders, tickets, now, call, listing,
                   capacityRead, resized>>

HallUpdate(h, r, s) ==
    /\ Live(halls, h)
    /\ HallAccepts(r, s)
    /\ halls' = [halls EXCEPT ![h] = HallRow("live", r, s)]
    /\ resized' = (resized \/ halls[h].rows # r \/ halls[h].seats_in_row # s)
    /\ UNCHANGED <<sessions, users, orders, tickets, now, call, listing,
                   capacityRead>>

HallDelete(h) ==
    /\ Live(halls, h)
    /\ halls' = [halls EXCEPT ![h] = HallRow("deleted", 0, 0)]
    /\ sessions' = DeleteSessions(SessionsOfHalls({h}))
    /\ tickets' = DeleteTickets(TicketsOfSessions(SessionsOfHalls({h})))
    /\ UNCHANGED <<users, orders, now, call, listing, capacityRead, resized>>

ReadCapacity(h) ==
    /\ Live(halls, h)
    /\ capacityRead' = [hall |-> h, value |-> capacity(h)]
    /\ UNCHANGED <<halls, sessions, users, orders, tickets, now, call, listing,
                   resized>>

SessionCreate(h) ==
    /\ NextId(sessions) # 0
    /\ Live(halls, h)
    /\ sessions' = [sessions EXCEPT ![NextId(sessions)] = SessionRow("live", h)]
    /\ UNCHANGED <<halls, users, orders, tickets, now, call, listing,
                   capacityRead, resized>>

SessionUpdate(s, h) ==
    /\ Live(sessions, s)
    /\ Live(halls, h)
    /\ sessions' = [sessions EXCEPT ![s] = SessionRow("live", h)]
    /\ resized' = (resized \/ sessions[s].cinema_hall # h)
    /\ UNCHANGED <<halls, users, orders, tickets, now, call, listing,
                   capacityRead>>

SessionDelete(s) ==
    /\ Live(sessions, s)
    /\ sessions' = DeleteSessions({s})
    /\ tickets' = DeleteTickets(TicketsOfSessions({s}))
    /\ UNCHANGED <<halls, users, orders, now, call, listing, capacityRead,
                   resized>>

UserCreate ==
    /\ \E u \in UserIds : users[u] = "unborn"
    /\ users' = [users EXCEPT
                   ![CHOOSE u \in UserIds : users[u] = "unborn" /\
                        \A v \in UserIds : users[v] = "unborn" => u <= v] = "live"]
    /\ UNCHANGED <<halls, sessions, orders, tickets, now, call, listing,
                   capacityRead, resized>>

UserDelete(u) ==
    /\ users[u] = "live"
    /\ users' = [users EXCEPT ![u] = "deleted"]
    /\ orders' = DeleteOrders(OrdersOfUsers({u}))
    /\ tickets' = DeleteTickets(TicketsOfOrders(OrdersOfUsers({u})))
    /\ UNCHANGED <<halls, sessions, now, call, listing, capacityRead, resized>>

\* the clock that auto_now_add reads
Tick ==
    /\ now < MaxTime
    /\ now' = now + 1
    /\ UNCHANGED <<halls, sessions, users, orders, tickets, call, listing,
                   capacityRead, resized>>

OrderCreate(u) ==
    /\ NextId(orders) # 0
    /\ users[u] = "live"
    /\ orders' = [orders EXCEPT ![NextId(orders)] = OrderRow("live", now, u)]
    /\ UNCHANGED <<halls, sessions, users, tickets, now, call, listing,
                   capacityRead, resized>>

\* an update writes the editable field; created_at (auto_now_add) is kept
OrderUpdate(o, u) ==
    /\ Live(orders, o)
    /\ users[u] = "live"
    /\ orders' = [orders EXCEPT ![o].user = u]
    /\ UNCHANGED <<halls, sessions, users, tickets, now, call, listing,
                   capacityRead, resized>>

OrderDelete(o) ==
    /\ Live(orders, o)
    /\ orders' = DeleteOrders({o})
    /\ tickets' = DeleteTickets(TicketsOfOrders({o}))
    /\ UNCHANGED <<halls, sessions, users, now, call, listing, capacityRead,
                   resized>>

ListOrders ==
    /\ listing' \in Listings(LiveIds(orders))
    /\ UNCHANGED <<halls, sessions, users, orders, tickets, now, call,
                   capacityRead, resized>>

\* Ticket.save, first step: self.full_clean()
TicketFullClean(p, id, ms, o, row, seat) ==
    /\ call[p].pc = "idle"
    /\ Live(sessions, ms)
    /\ Live(orders, o)
    /\ \/ Live(tickets, id)
       \/ id = 0 /\ Cardinality(Unborn(tickets)) > Cardinality(InsertsInFlight)
    /\ LET errors == full_clean(id, ms, row, seat)
       IN  call' = [call EXCEPT ![p] =
                Call(IF ProceedsToWrite(errors) THEN "validated"
                     ELSE "clean_failed", id, ms, o, row, seat, errors)]
    /\ UNCHANGED <<halls, sessions, users, orders, tickets, now, listing,
                   capacityRead, resized>>

\* Ticket.save, second step: super().save(): UPDATE the row with this key,
\* INSERT when there is none; the database checks its constraints
TicketWrite(p) ==
    /\ call[p].pc = "validated"
    /\ LET c == call[p]
           id == IF c.id = 0 THEN NextId(tickets) ELSE c.id
       IN  IF ~ForeignKeysHold(c.movie_session, c.order)
           THEN /\ call' = [call EXCEPT ![p].pc = "write_failed",
                                        ![p].errors = ForeignKeyError]
                /\ UNCHANGED tickets
           ELSE IF ~UniqueConstraintHolds(id, c.movie_session, c.row, c.seat)
           THEN /\ call' = [call EXCEPT ![p].pc = "write_failed",
                                        ![p].errors = UniqueConstraintError]
                /\ UNCHANGED tickets
           ELSE /\ tickets' = [tickets EXCEPT ![id] =
                        TicketRow("live", c.movie_session, c.order, c.row, c.seat)]
                /\ call' = [call EXCEPT ![p] = IdleCall]
    /\ UNCHANGED <<halls, sessions, users, orders, now, listing, capacityRead,
                   resized>>

\* the exception of a failed save reaches the caller
TicketRaise(p) ==
    /\ call[p].pc \in {"clean_failed", "write_failed"}
    /\ call' = [call EXCEPT ![p] = IdleCall]
    /\ UNCHANGED <<halls, sessions, users, orders, tickets, now, listing,
                   capacityRead, resized>>

TicketDelete(t) ==
    /\ Live(tickets, t)
    /\ tickets' = DeleteTickets({t})
    /\ UNCHANGED <<halls, sessions, users, orders, now, call, listing,
                   capacityRead, resized>>

(* ------------------------------ states --------------------------------- *)
EmptyHalls == [h \in HallIds |-> HallRow("unborn", 0, 0)]
EmptySessions == [s \in SessionIds |-> SessionRow("unborn", 0)]
EmptyOrders == [o \in OrderIds |-> OrderRow("unborn", 0, 0)]
EmptyTickets == [t \in TicketIds |-> TicketRow("unborn", 0, 0, 0, 0)]

\* what no caller has touched yet
Untouched ==
    /\ tickets = EmptyTickets
    /\ now = 0
    /\ call = [p \in Procs |-> IdleCall]
    /\ listing = <<>>
    /\ capacityRead = [hall |-> 0, value |-> 0]
    /\ resized = FALSE

\* the empty database
Init ==
    /\ halls = EmptyHalls
    /\ sessions = EmptySessions
    /\ users = [u \in UserIds |-> "unborn"]
    /\ orders = EmptyOrders
    /\ Untouched

\* A database after HallCreate, SessionCreate, UserCreate and OrderCreate:
\* the halls in hs, each of 1 row and MaxDim seats, the sessions in ss
\* (session s in hall s when there is one, else in hall 1), user 1 and the
\* orders in os, all created at time 0.
Populated(hs, ss, os) ==
    /\ halls = [h \in HallIds |->
                  IF h \in hs THEN HallRow("live", 1, MaxDim)
                  ELSE HallRow("unborn", 0, 0)]
    /\ sessions = [s \in SessionIds |->
                     IF s \in ss THEN SessionRow("live", IF s \in hs THEN s ELSE 1)
                     ELSE SessionRow("unborn", 0)]
    /\ users = [u \in UserIds |-> IF u = 1 THEN "live" ELSE "unborn"]
    /\ orders = [o \in OrderIds |->
                   IF o \in os THEN OrderRow("live", 0, 1)
                   ELSE OrderRow("unborn", 0, 0)]
    /\ Untouched

\* Ticket.save by the callers in ps, for tickets of these rows and seats
Save(ps, rows, seats) ==
    \/ \E p \in ps, id \in {0} \cup TicketIds, ms \in SessionIds,
          o \in OrderIds, row \in rows, seat \in seats :
            TicketFullClean(p, id, ms, o, row, seat)
    \/ \E p \in ps : TicketWrite(p)
    \/ \E p \in ps : TicketRaise(p)

Next ==
    \/ \E r \in DimRange, s \in DimRange : HallCreate(r, s)
    \/ \E h \in HallIds, r \in DimRange, s \in DimRange : HallUpdate(h, r, s)
    \/ \E h \in HallIds : HallDelete(h)
    \/ \E h \in HallIds : ReadCapacity(h)
    \/ \E h \in HallIds : SessionCreate(h)
    \/ \E s \in SessionIds, h \in HallIds : SessionUpdate(s, h)
    \/ \E s \in SessionIds : SessionDelete(s)
    \/ UserCreate
    \/ \E u \in UserIds : UserDelete(u)
    \/ Tick
    \/ \E u \in UserIds : OrderCreate(u)
    \/ \E o \in OrderIds, u \in UserIds : OrderUpdate(o, u)
    \/ \E o \in OrderIds : OrderDelete(o)
    \/ ListOrders
    \/ Save(Procs, SeatRange, SeatRange)
    \/ \E t \in TicketIds : TicketDelete(t)

\* the whole system, from the empty database
Spec == Init /\ [][Next]_vars

\* halls alone: created, updated and deleted with any integers
NextHalls ==
    \/ \E r \in DimRange, s \in DimRange : HallCreate(r, s)
    \/ \E h \in HallIds, r \in DimRange, s \in DimRange : HallUpdate(h, r, s)
    \/ \E h \in HallIds : HallDelete(h)

SpecHalls == Init /\ [][NextHalls]_vars

\* one hall, updated and its capacity read
InitCapacity == Populated({1}, {}, {})

NextCapacity ==
    \/ \E h \in HallIds, r \in DimRange, s \in DimRange : HallUpdate(h, r, s)
    \/ \E h \in HallIds : ReadCapacity(h)

SpecCapacity == InitCapacity /\ [][NextCapacity]_vars

\* users and orders alone, with the clock and the default listing
NextOrders ==
    \/ UserCreate
    \/ \E u \in UserIds : UserDelete(u)
    \/ Tick
    \/ \E u \in UserIds : OrderCreate(u)
    \/ \E o \in OrderIds, u \in UserIds : OrderUpdate(o, u)
    \/ \E o \in OrderIds : OrderDelete(o)
    \/ ListOrders

SpecOrders == Init /\ [][NextOrders]_vars

\* one caller saving tickets for one session, in a hall of any dimensions
InitValidate ==
    /\ \E r \in DimRange, s \in DimRange :
          halls = [h \in HallIds |->
                     IF h = 1 THEN HallRow("live", r, s)
                     ELSE HallRow("unborn", 0, 0)]
    /\ sessions = [s \in SessionIds |->
                     IF s = 1 THEN SessionRow("live", 1)
                     ELSE SessionRow("unborn", 0)]
    /\ users = [u \in UserIds |-> IF u = 1 THEN "live" ELSE "unborn"]
    /\ orders = [o \in OrderIds |->
                   IF o = 1 THEN OrderRow("live", 0, 1)
                   ELSE OrderRow("unborn", 0, 0)]
    /\ Untouched

NextValidate ==
    \/ Save({1}, SeatRange, SeatRange)
    \/ \E t \in TicketIds : TicketDelete(t)

SpecValidate == InitValidate /\ [][NextValidate]_vars

\* one caller saving tickets of seat 1 for a session, while the rows of two
\* halls are changed and the session is moved between the halls
InitResize == Populated({1, 2}, {1}, {1})

NextResize ==
    \/ \E h \in HallIds, r \in 1..MaxDim : HallUpdate(h, r, halls[h].seats_in_row)
    \/ \E s \in SessionIds, h \in HallIds : SessionUpdate(s, h)
    \/ Save({1}, SeatRange, {1})
    \/ \E t \in TicketIds : TicketDelete(t)

SpecResize == InitResize /\ [][NextResize]_vars

\* concurrent callers saving tickets of row 1 for the sessions of one order
InitBooking == Populated({1, 2}, {1, 2}, {1})

NextBooking ==
    \/ Save(Procs, {1}, SeatRange)
    \/ \E t \in TicketIds : TicketDelete(t)
    \/ \E s \in SessionIds : SessionDelete(s)

SpecBooking == InitBooking /\ [][NextBooking]_vars

\* one caller saving tickets of row 1, seat 1 while halls, sessions, users and
\* orders are deleted
InitCascade == Populated({1, 2}, {1, 2}, {1, 2})

NextCascade ==
    \/ Save({1}, {1}, {1})
    \/ \E t \in TicketIds : TicketDelete(t)
    \/ \E s \in SessionIds : SessionDelete(s)
    \/ \E o \in OrderIds : OrderDelete(o)
    \/ \E h \in HallIds : HallDelete(h)
    \/ \E u \in UserIds : UserDelete(u)

SpecCascade == InitCascade /\ [][NextCascade]_vars

(* ------------------------------ claims --------------------------------- *)
\* the hall Ticket.clean reaches through the ticket's session
HallOf(ms) == halls[sessions[ms].cinema_hall]
RowInRange(row, ms) == 1 <= row /\ row <= HallOf(ms).rows
SeatInRange(seat, ms) == 1 <= seat /\ seat <= HallOf(ms).seats_in_row
\* the step in which caller p runs full_clean()
CleanStep(p) ==
    call[p].pc = "idle" /\ call'[p].pc \in {"validated", "clean_failed"}
\* the step in which caller p runs the write
WriteStep(p) == call[p].pc = "validated" /\ call'[p] # call[p]
SameSeat(t, c) ==
    /\ tickets[t].movie_session = c.movie_session
    /\ tickets[t].row = c.row
    /\ tickets[t].seat = c.seat

C2_NoDoubleBooking ==
    \A t1 \in LiveIds(tickets), t2 \in LiveIds(tickets) :
        (/\ tickets[t1].movie_session = tickets[t2].movie_session
         /\ tickets[t1].row = tickets[t2].row
         /\ tickets[t1].seat = tickets[t2].seat) => t1 = t2

\* two saves for one seat both passed validation; one is persisted, the other
\* was refused by the database
C2_Witness ==
    \E p \in Procs, t \in LiveIds(tickets) :
        /\ call[p].pc = "write_failed"
        /\ call[p].errors = UniqueConstraintError
        /\ SameSeat(t, call[p])

\* C3: a ticket row is written (inserted or updated) only by the write step of
\* a save whose full_clean() found no error, with the values validated; a
\* save whose validation fails changes no table and ends without a write.
C3_ValidationBeforeWrite ==
    [][/\ \A t \in TicketIds :
            (tickets'[t] # tickets[t] /\ tickets'[t].st = "live") =>
                \E p \in Procs :
                    /\ WriteStep(p)
                    /\ call[p].errors = NoErrors
                    /\ call[p].id \in {0, t}
                    /\ tickets'[t] = TicketRow("live", call[p].movie_session,
                            call[p].order, call[p].row, call[p].seat)
       /\ \A p \in Procs :
            (CleanStep(p) /\ call'[p].errors # NoErrors) =>
                /\ call'[p].pc = "clean_failed"
                /\ UNCHANGED <<halls, sessions, users, orders, tickets>>
       /\ \A p \in Procs :
            (call[p].pc = "clean_failed" /\ call'[p] # call[p]) =>
                /\ call'[p] = IdleCall
                /\ UNCHANGED <<halls, sessions, users, orders, tickets>>
      ]_vars

\* the update of a persisted ticket to a seat out of range was refused and the
\* ticket is as it was
C3_Witness ==
    \E p \in Procs :
        /\ call[p].pc = "clean_failed"
        /\ call[p].errors = SeatOutOfRange("seat")
        /\ Live(tickets, call[p].id)
        /\ tickets[call[p].id].seat # call[p].seat

\* C4: the seat validation of a save succeeds exactly when 1 <= row <= R and
\* 1 <= seat <= S for the hall's R rows and S seats_in_row; with only the row
\* out of range it fails on field row, with only the seat out of range on
\* field seat.
C4_ValidationIffInRange ==
    [][\A p \in Procs : CleanStep(p) =>
          LET c == call'[p]
              rowOk == RowInRange(c.row, c.movie_session)
              seatOk == SeatInRange(c.seat, c.movie_session)
              rangeErrors == {e \in c.errors : e[2] = "seat_out_of_range"}
          IN  /\ (rangeErrors = {}) <=> (rowOk /\ seatOk)
              /\ (~rowOk /\ seatOk) => c.errors = SeatOutOfRange("row")
              /\ (rowOk /\ ~seatOk) => c.errors = SeatOutOfRange("seat")
      ]_vars

\* row R + 1 of a hall of R >= 2 rows was refused on field row, the seat
\* being the last seat S of the row
C4_Witness ==
    /\ call[1].pc = "clean_failed"
    /\ HallOf(call[1].movie_session).rows >= 2
    /\ call[1].row = HallOf(call[1].movie_session).rows + 1
    /\ call[1].seat = HallOf(call[1].movie_session).seats_in_row
    /\ call[1].seat >= 1
    /\ call[1].errors = SeatOutOfRange("row")

C7_CascadeDelete ==
    /\ [](\A t \in LiveIds(tickets) :
            Live(sessions, tickets[t].movie_session) /\ Live(orders, tickets[t].order))
    /\ [][(\/ \E s \in LiveIds(sessions) : ~Live(sessions', s)
           \/ \E o \in LiveIds(orders) : ~Live(orders', o)) =>
            \A t \in LiveIds(tickets) :
                IF Live(sessions', tickets[t].movie_session) /\ Live(orders', tickets[t].order)
                THEN tickets'[t] = tickets[t]
                ELSE tickets'[t].st = "deleted"
        ]_vars

\* session 1 and order 2 are deleted, a ticket was deleted and a ticket of
\* session 2 and order 1 is still persisted
C7_Witness ==
    /\ sessions[1].st = "deleted"
    /\ orders[2].st = "deleted"
    /\ Live(halls, 1)
    /\ users[1] = "live"
    /\ \E t \in TicketIds : tickets[t].st = "deleted"
    /\ \E t \in LiveIds(tickets) : tickets[t].movie_session = 2 /\ tickets[t].order = 1

\* C8, as stated: every persisted hall has rows > 0 and seats_in_row > 0.
C8_HallsPositive ==
    \A h \in LiveIds(halls) : halls[h].rows > 0 /\ halls[h].seats_in_row > 0

\* C8, amended: a hall is created or updated with any integer rows and
\* seats_in_row, zero and negative values included: nothing is rejected, and
\* the values are stored as given.
C8_HallStoresAnyInteger ==
    \A r \in DimRange, s \in DimRange :
        /\ NextId(halls) # 0 =>
              ENABLED (HallCreate(r, s) /\ halls'[NextId(halls)] = HallRow("live", r, s))
        /\ \A h \in LiveIds(halls) :
              ENABLED (HallUpdate(h, r, s) /\ halls'[h] = HallRow("live", r, s))

C8_Witness ==
    /\ Live(halls, 1) /\ halls[1].rows = 0 /\ halls[1].seats_in_row = -1
    /\ Live(halls, 2) /\ halls[2].rows = -1 /\ halls[2].seats_in_row = MaxDim

\* C9, as stated (its last part): the relative order of two orders is the
\* same in any two successive default listings that hold both.
C9_RelativeOrderFixed ==
    [][\A i1, j1 \in 1..Len(listing), i2, j2 \in 1..Len(listing') :
          (/\ listing[i1].id = listing'[i2].id
           /\ listing[j1].id = listing'[j2].id
           /\ i1 < j1) => i2 < j2
      ]_vars

\* C9, amended: the default listing holds every persisted order once, sorted
\* by created_at descending; created_at of an order never changes; and the
\* relative order of two orders with different created_at is the same in any
\* two successive listings that hold both.
C9_ListingNewestFirst ==
    /\ [][listing' # listing =>
            /\ {listing'[i].id : i \in 1..Len(listing')} = LiveIds(orders)
            /\ Len(listing') = Cardinality(LiveIds(orders))
            /\ \A i \in 1..Len(listing') :
                  listing'[i].created_at = orders[listing'[i].id].created_at
            /\ \A i, j \in 1..Len(listing') :
                  i < j => listing'[i].created_at >= listing'[j].created_at
        ]_vars
    /\ [][\A o \in LiveIds(orders) :
            Live(orders', o) => orders'[o].created_at = orders[o].created_at]_vars
    /\ [][\A i1, j1 \in 1..Len(listing), i2, j2 \in 1..Len(listing') :
            (/\ listing[i1].id = listing'[i2].id
             /\ listing[j1].id = listing'[j2].id
             /\ listing[i1].created_at # listing[j1].created_at
             /\ i1 < j1) => i2 < j2
        ]_vars

\* orders created at T1 < T2 < T3 are listed T3, T2, T1
C9_Witness ==
    /\ Len(listing) = 3
    /\ listing[1].created_at > listing[2].created_at
    /\ listing[2].created_at > listing[3].created_at
    /\ listing[1].id = 3
    /\ listing[3].id = 1

\* C10: every read of a hall's capacity gives rows * seats_in_row of the
\* hall's values at the time of the read, also after the hall was updated.
C10_CapacityIsProduct ==
    [][capacityRead' # capacityRead =>
          capacityRead'.value =
              halls[capacityRead'.hall].rows * halls[capacityRead'.hall].seats_in_row
      ]_vars

\* a hall updated to MaxDim rows of MaxDim seats reads MaxDim * MaxDim
C10_Witness ==
    /\ resized
    /\ Live(halls, capacityRead.hall)
    /\ halls[capacityRead.hall].rows = MaxDim
    /\ halls[capacityRead.hall].seats_in_row = MaxDim
    /\ capacityRead.value = MaxDim * MaxDim
====
